---- MODULE Spec2Model ----
(***************************************************************************)
(* Model of pybamm/models/submodels/thermal/isothermal.py: the Isothermal  *)
(* thermal submodel.  Instances are built from parameter objects held by   *)
(* reference, and answer get_fundamental_variables, _flux_law and          *)
(* set_initial_conditions.  Expression trees (Scalar, Broadcast,           *)
(* Concatenation) and the shared base class are collaborators outside the  *)
(* file; they are modelled by what the submodel's documentation says of    *)
(* them.                                                                   *)
(***************************************************************************)
EXTENDS Integers, Sequences, FiniteSets, TLC

\* ------------------------------------------------------------- bounds
NumInstances == 2
NumParams == 2
MaxTemp == 1
MaxPoint == 1

Instances == 1..NumInstances
ParamRefs == 1..NumParams
Xs == 0..MaxPoint

\* ------------------------------------------------ expression trees
NEG == "negative electrode"
SEP == "separator"
POS == "positive electrode"
Subdomains == {NEG, SEP, POS}
WholeCell == <<NEG, SEP, POS>>

Range(s) == {s[k] : k \in 1..Len(s)}

NoExpr == [type |-> "None", value |-> 0, domain |-> <<>>, children |-> <<>>]

\* a bare Python number handed to a constructor
Number(v) == [type |-> "Number", value |-> v, domain |-> <<>>, children |-> <<>>]

Scalar(v) == [type |-> "Scalar", value |-> v, domain |-> <<>>, children |-> <<>>]

SpatialVariable(domain) ==
    [type |-> "SpatialVariable", value |-> 0, domain |-> domain, children |-> <<>>]

Broadcast(child, domain) ==
    [type |-> "Broadcast", value |-> 0, domain |-> domain, children |-> <<child>>]

Concatenation(a, b, c) ==
    [type |-> "Concatenation", value |-> 0,
     domain |-> a.domain \o b.domain \o c.domain, children |-> <<a, b, c>>]

\* the values an expression takes at point x of subdomain d (empty: not
\* defined there)
RECURSIVE EvalAt(_, _, _)
EvalAt(e, d, x) ==
    CASE e.type \in {"Number", "Scalar"} -> {e.value}
      [] e.type = "SpatialVariable" -> IF d \in Range(e.domain) THEN {x} ELSE {}
      [] e.type = "Broadcast" ->
            IF d \in Range(e.domain) THEN EvalAt(e.children[1], d, x) ELSE {}
      [] e.type = "Concatenation" ->
            UNION {EvalAt(e.children[k], d, x) :
                     k \in {j \in 1..Len(e.children) : d \in Range(e.children[j].domain)}}
      [] OTHER -> {}

ZeroEverywhere(e) == \A d \in Subdomains : \A x \in Xs : EvalAt(e, d, x) = {0}

\* a field holding v on each of the three subdomains
UniformField(v) ==
    Concatenation(Broadcast(Scalar(v), <<NEG>>), Broadcast(Scalar(v), <<SEP>>),
                  Broadcast(Scalar(v), <<POS>>))

\* ----------------------------------------------------------- mappings
\* a Python dict: insertion-ordered sequence of key/value entries
Entry(k, v) == [key |-> k, value |-> v]
EmptyMap == <<>>
Keys(m) == {m[k].key : k \in 1..Len(m)}
Lookup(m, key) == {m[k].value : k \in {j \in 1..Len(m) : m[j].key = key}}

Ok(m) == [status |-> "ok", error |-> "", mapping |-> m]
Raise(err) == [status |-> "raise", error |-> err, mapping |-> EmptyMap]

\* ------------------------------------------------- objects and calls
\* an Isothermal object: the parameter reference the base class keeps and
\* the attributes the submodel itself has set on self
NoInst == [alive |-> FALSE, param |-> 0, attrs |-> {}]

\* base_thermal.BaseModel.__init__: keeps the reference it is given
BaseModel_init(param) == [alive |-> TRUE, param |-> param, attrs |-> {}]

\* what a method call leaves behind: the object, the parameter heap, the
\* parameter fields it read, its arguments after the call, the calls it made
\* to the base routine, its result, and whether the expression it built is
\* a new object
Outcome(self, heap, argT, argVars, calls, res, expr, fresh) ==
    [self |-> self, heap |-> heap, reads |-> {}, argT |-> argT, argVars |-> argVars,
     calls |-> calls, status |-> res.status, error |-> res.error,
     mapping |-> res.mapping, expr |-> expr, fresh |-> fresh]

\* variant: the constructor normalises the reference temperature of the
\* parameter object it is given
Isothermal_init_normalising(param, heap) ==
    Outcome(BaseModel_init(param), [heap EXCEPT ![param].T_ref = 0],
            NoExpr, EmptyMap, <<>>, Ok(EmptyMap), NoExpr, FALSE)

\* Isothermal.__init__(self, param)
Isothermal_init(param, heap) ==
    Outcome(BaseModel_init(param), heap, NoExpr, EmptyMap, <<>>, Ok(EmptyMap), NoExpr, FALSE)

\* variant: conductive flux taken from the temperature field it is handed
flux_law_of_T(self, heap, T) ==
    Outcome(self, heap, T, EmptyMap, <<>>, Ok(EmptyMap), T, FALSE)

\* variant: flux scaled by the reference temperature of the parameter object
flux_law_of_param(self, heap, T) ==
    LET q == Broadcast(Scalar(heap[self.param].T_ref), <<NEG, SEP, POS>>)
    IN  [Outcome(self, heap, T, EmptyMap, <<>>, Ok(EmptyMap), q, TRUE)
           EXCEPT !.reads = {"T_ref"}]

\* variant: the flux is cached on the object
flux_law_caching(self, heap, T) ==
    LET q == Broadcast(Scalar(0), <<NEG, SEP, POS>>)
    IN  Outcome([self EXCEPT !.attrs = @ \cup {"q"}], heap, T, EmptyMap, <<>>,
                Ok(EmptyMap), q, ~("q" \in self.attrs))

\* Isothermal._flux_law(self, T)
flux_law(self, heap, T) ==
    LET q == Broadcast(Scalar(0), <<NEG, SEP, POS>>)
    IN  Outcome(self, heap, T, EmptyMap, <<>>, Ok(EmptyMap), q, TRUE)

\* variant: an initial condition for the temperature when the mapping has one
set_initial_conditions_of_T(self, heap, variables) ==
    Outcome(self, heap, NoExpr, variables, <<>>,
            Ok(IF "Cell temperature" \in Keys(variables)
               THEN <<Entry("Cell temperature", Scalar(0))>> ELSE EmptyMap),
            NoExpr, FALSE)

\* Isothermal.set_initial_conditions(self, variables)
set_initial_conditions(self, heap, variables) ==
    Outcome(self, heap, NoExpr, variables, <<>>, Ok(EmptyMap), NoExpr, FALSE)

\* the shared base routine, seen from the submodel: it either fails or
\* builds a mapping from the temperature field it is handed
BaseFailures == {"DomainError", "KeyError"}
BaseBehaviours == {"minimal", "standard", "dimensional"} \cup BaseFailures

get_standard_fundamental_variables(self, heap, T, b) ==
    CASE b \in BaseFailures -> Raise(b)
      [] b = "minimal" -> Ok(<<Entry("Cell temperature", T)>>)
      [] b = "standard" ->
            Ok(<<Entry("Cell temperature", T),
                 Entry("Heat flux", flux_law(self, heap, T).expr)>>)
      [] OTHER ->
            Ok(<<Entry("Cell temperature", T),
                 Entry("Reference temperature", Scalar(heap[self.param].T_ref))>>)

\* variant: the separator piece holds 1
T_s_one == Broadcast(Number(1), <<"separator">>)

\* the three pieces and the field built by get_fundamental_variables
T_n == Broadcast(Number(0), <<NEG>>)
T_s == Broadcast(Number(0), <<SEP>>)
T_p == Broadcast(Number(0), <<POS>>)
\* variant: the separator and positive electrode pieces swapped
T_field_swapped ==
    Concatenation(Broadcast(Number(0), <<NEG>>), Broadcast(Number(0), <<POS>>),
                  Broadcast(Number(0), <<SEP>>))
T_field == Concatenation(T_n, T_s, T_p)

\* variant: a heat flux entry is added to the mapping the base routine returns
get_fundamental_variables_adding(self, heap, b) ==
    LET T == Concatenation(T_n, T_s, T_p)
        variables == get_standard_fundamental_variables(self, heap, T, b)
        more == IF variables.status = "ok"
                THEN [variables EXCEPT !.mapping = @ \o <<Entry("Isothermal", Scalar(1))>>]
                ELSE variables
    IN  Outcome(self, heap, NoExpr, EmptyMap, <<T>>, more, T, TRUE)

\* variant: the field is built once and warmed on every later call
get_fundamental_variables_stateful(self, heap, b) ==
    LET T == IF "T" \in self.attrs THEN UniformField(1) ELSE Concatenation(T_n, T_s, T_p)
        variables == get_standard_fundamental_variables(self, heap, T, b)
    IN  Outcome([self EXCEPT !.attrs = @ \cup {"T"}], heap, NoExpr, EmptyMap, <<T>>,
                variables, T, TRUE)

\* variant: a failure of the base routine is caught and a partial mapping returned
get_fundamental_variables_catching(self, heap, b) ==
    LET T == Concatenation(T_n, T_s, T_p)
        variables == get_standard_fundamental_variables(self, heap, T, b)
    IN  Outcome(self, heap, NoExpr, EmptyMap, <<T>>,
                IF variables.status = "raise" THEN Ok(<<Entry("Cell temperature", T)>>)
                ELSE variables,
                T, TRUE)

\* Isothermal.get_fundamental_variables(self); b is how the base routine
\* behaves on this call
get_fundamental_variables(self, heap, b) ==
    LET T == T_field
        variables == get_standard_fundamental_variables(self, heap, T, b)
    IN  Outcome(self, heap, NoExpr, EmptyMap, <<T>>, variables, T, TRUE)

\* ------------------------------------------------------ caller inputs
TInputs == {UniformField(v) : v \in 0..MaxTemp} \cup {SpatialVariable(WholeCell)}
VarInputs ==
    {EmptyMap,
     <<Entry("Cell temperature", UniformField(MaxTemp))>>,
     <<Entry("Electrolyte concentration", Scalar(1)),
       Entry("Cell temperature", UniformField(0))>>}

\* -------------------------------------------------------------- state
VARIABLES
    heap,     \* parameter objects: reference -> fields
    inst,     \* Isothermal objects
    born,     \* each object as its constructor left it
    last,     \* the last call, with the state it started from
    prev      \* an earlier call, remembered for comparison with the last

vars == <<heap, inst, born, last, prev>>

Ops == {"get_fundamental_variables", "_flux_law", "set_initial_conditions"}

NoCall ==
    [op |-> "none", inst |-> 0, base |-> "", paramArg |-> 0,
     status |-> "ok", error |-> "", mapping |-> EmptyMap, expr |-> NoExpr,
     calls |-> <<>>, reads |-> {}, fresh |-> FALSE,
     argT |-> NoExpr, argTAfter |-> NoExpr, argVars |-> EmptyMap, argVarsAfter |-> EmptyMap,
     heapBefore |-> <<>>, selfBefore |-> NoInst]

NoPrev == [op |-> "none", inst |-> 0, status |-> "ok", mapping |-> EmptyMap, expr |-> NoExpr]

\* the record of a call of op on object i that ended with outcome r
Called(op, i, r) ==
    [NoCall EXCEPT !.op = op, !.inst = i, !.status = r.status, !.error = r.error,
                   !.mapping = r.mapping, !.expr = r.expr, !.calls = r.calls,
                   !.reads = r.reads, !.fresh = r.fresh,
                   !.argTAfter = r.argT, !.argVarsAfter = r.argVars,
                   !.heapBefore = heap, !.selfBefore = inst[i]]

\* the call now superseded is remembered, or the one remembered so far is kept
Remember ==
    prev' \in {prev,
               [op |-> last.op, inst |-> last.inst, status |-> last.status,
                mapping |-> last.mapping, expr |-> last.expr]}

Init ==
    /\ heap = [p \in ParamRefs |-> [T_ref |-> p]]
    /\ inst = [i \in Instances |-> NoInst]
    /\ born = [i \in Instances |-> NoInst]
    /\ last = NoCall
    /\ prev = NoPrev

\* Isothermal(param)
Construct(i, p) ==
    /\ ~inst[i].alive
    /\ LET r == Isothermal_init(p, heap)
       IN  /\ inst' = [inst EXCEPT ![i] = r.self]
           /\ born' = [born EXCEPT ![i] = r.self]
           /\ heap' = r.heap
           /\ last' = [Called("init", i, r) EXCEPT !.paramArg = p]
    /\ Remember

GetFundamentalVariables(i, b) ==
    /\ inst[i].alive
    /\ LET r == get_fundamental_variables(inst[i], heap, b)
       IN  /\ inst' = [inst EXCEPT ![i] = r.self]
           /\ heap' = r.heap
           /\ last' = [Called("get_fundamental_variables", i, r) EXCEPT !.base = b]
    /\ Remember
    /\ UNCHANGED born

FluxLaw(i, T) ==
    /\ inst[i].alive
    /\ LET r == flux_law(inst[i], heap, T)
       IN  /\ inst' = [inst EXCEPT ![i] = r.self]
           /\ heap' = r.heap
           /\ last' = [Called("_flux_law", i, r) EXCEPT !.argT = T]
    /\ Remember
    /\ UNCHANGED born

SetInitialConditions(i, variables) ==
    /\ inst[i].alive
    /\ LET r == set_initial_conditions(inst[i], heap, variables)
       IN  /\ inst' = [inst EXCEPT ![i] = r.self]
           /\ heap' = r.heap
           /\ last' = [Called("set_initial_conditions", i, r) EXCEPT !.argVars = variables]
    /\ Remember
    /\ UNCHANGED born

Next ==
    \/ \E i \in Instances, p \in ParamRefs : Construct(i, p)
    \/ \E i \in Instances, b \in BaseBehaviours : GetFundamentalVariables(i, b)
    \/ \E i \in Instances, T \in TInputs : FluxLaw(i, T)
    \/ \E i \in Instances, variables \in VarInputs : SetInitialConditions(i, variables)

Spec == Init /\ [][Next]_vars

\* ------------------------------------------------------------- claims
GFV == "get_fundamental_variables"
FLUX == "_flux_law"
IC == "set_initial_conditions"

\* the parameter reference object i was built from
ParamOf(i) == inst[i].param

\* the zero field has three pieces, each 0 at every point of its subdomain
PiecesZero(e) ==
    /\ Len(e.children) = 3
    /\ \A k \in 1..3 : \A d \in Range(e.children[k].domain) : \A x \in Xs :
          EvalAt(e.children[k], d, x) = {0}

\* C1: for every parameter object, get_fundamental_variables hands the base
\* routine a temperature field that is 0 on each of its three pieces, and the
\* temperature entry of the mapping it returns is 0 at every point of the
\* three subdomains.
C1_TemperatureZero ==
    last.op = GFV =>
        /\ Len(last.calls) >= 1
        /\ \A k \in 1..Len(last.calls) :
              PiecesZero(last.calls[k]) /\ ZeroEverywhere(last.calls[k])
        /\ last.status = "ok" =>
              /\ Lookup(last.mapping, "Cell temperature") # {}
              /\ \A e \in Lookup(last.mapping, "Cell temperature") : ZeroEverywhere(e)

C1_Witness ==
    /\ last.op = GFV /\ last.status = "ok" /\ last.base = "dimensional"
    /\ ParamOf(last.inst) = NumParams
    /\ Lookup(last.mapping, "Reference temperature") = {Scalar(NumParams)}

\* C2: for every input field T, also a non-zero one, _flux_law(T) is the
\* constant 0 broadcast over exactly negative electrode, separator, positive
\* electrode, and is the same whatever T is.
C2_FluxZero ==
    last.op = FLUX =>
        /\ last.status = "ok"
        /\ last.expr.type = "Broadcast"
        /\ last.expr.domain = WholeCell
        /\ last.expr.children = <<Scalar(0)>>
        /\ ZeroEverywhere(last.expr)
        /\ \A T \in TInputs :
              flux_law(last.selfBefore, last.heapBefore, T).expr = last.expr

C2_Witness ==
    /\ last.op = FLUX
    /\ last.argT = UniformField(MaxTemp)
    /\ MaxTemp > 0
    /\ \A d \in Subdomains : \A x \in Xs : EvalAt(last.argT, d, x) = {MaxTemp}

\* C3: set_initial_conditions returns the empty mapping for every input
\* mapping and every instance, whatever was called before.
C3_NoInitialConditions ==
    last.op = IC => last.status = "ok" /\ last.mapping = EmptyMap

C3_Witness ==
    /\ last.op = IC
    /\ "Cell temperature" \in Keys(last.argVars)
    /\ Len(last.argVars) = 2
    /\ prev.op = GFV /\ prev.inst = last.inst

\* C4: the temperature field is a concatenation of exactly three pieces over
\* negative electrode, separator, positive electrode, in this order.
C4_ThreeOrderedSubdomains ==
    last.op = GFV =>
        /\ Len(last.calls) >= 1
        /\ LET T == last.calls[1]
           IN  /\ T.type = "Concatenation"
               /\ Len(T.children) = 3
               /\ [k \in 1..Len(T.children) |-> T.children[k].domain]
                     = <<(<<NEG>>), (<<SEP>>), (<<POS>>)>>
               /\ T.domain = WholeCell

C4_Witness ==
    /\ last.op = GFV
    /\ Len(last.calls) = 1
    /\ last.calls[1].children[3].domain = <<POS>>
    /\ last.base = "minimal"

\* C5: get_fundamental_variables calls the base routine exactly once, with
\* the field it built, and returns the routine's result unmodified.
C5_PassThrough ==
    last.op = GFV =>
        /\ Len(last.calls) = 1
        /\ last.calls[1] = last.expr
        /\ [status |-> last.status, error |-> last.error, mapping |-> last.mapping]
              = get_standard_fundamental_variables(last.selfBefore, last.heapBefore,
                                                   last.calls[1], last.base)

C5_Witness ==
    /\ last.op = GFV /\ last.status = "ok" /\ last.base = "standard"
    /\ Len(last.mapping) = 2
    /\ Keys(last.mapping) = {"Cell temperature", "Heat flux"}

C7_Idempotent ==
    (last.op = GFV /\ prev.op = GFV /\ prev.inst = last.inst)
    => /\ last.expr = prev.expr
       /\ last.expr.domain = WholeCell /\ prev.expr.domain = WholeCell
       /\ ZeroEverywhere(last.expr) /\ ZeroEverywhere(prev.expr)
       /\ last.fresh

C7_Witness ==
    /\ last.op = GFV /\ prev.op = GFV /\ prev.inst = last.inst
    /\ prev.status = "raise" /\ last.status = "ok"

\* what a call of op returns on object self
ResultOf(op, self, h, call) ==
    LET r == CASE op = GFV -> get_fundamental_variables(self, h, call.base)
               [] op = FLUX -> flux_law(self, h, call.argT)
               [] OTHER -> set_initial_conditions(self, h, call.argVars)
    IN  [status |-> r.status, error |-> r.error, mapping |-> r.mapping, expr |-> r.expr]

\* C8: the submodel is stateless after construction: after any sequence of
\* calls every instance is as its constructor left it, each operation returns
\* what it returns on a fresh instance, and every temperature and flux field
\* has all three pieces exactly 0.
C8_Stateless ==
    /\ \A i \in Instances : inst[i].alive => inst[i] = born[i]
    /\ last.op \in Ops =>
          [status |-> last.status, error |-> last.error, mapping |-> last.mapping,
           expr |-> last.expr]
             = ResultOf(last.op, born[last.inst], last.heapBefore, last)
    /\ last.op \in {GFV, FLUX} => ZeroEverywhere(last.expr)
    /\ prev.op \in {GFV, FLUX} => ZeroEverywhere(prev.expr)

C8_Witness ==
    /\ \A i \in Instances : inst[i].alive
    /\ last.op \in Ops /\ prev.op \in Ops
    /\ prev.op # last.op
    /\ prev.inst # last.inst

\* C9: the parameter object is only forwarded to the base constructor: no
\* operation reads, copies or changes it, and _flux_law and
\* set_initial_conditions leave their argument unchanged.
C9_ParameterUntouched ==
    last.op \in Ops \cup {"init"} =>
        /\ heap = last.heapBefore
        /\ last.reads = {}
        /\ last.op = "init" => ParamOf(last.inst) = last.paramArg
        /\ last.argTAfter = last.argT
        /\ last.argVarsAfter = last.argVars

C9_Witness ==
    /\ last.op = "init" /\ last.paramArg = NumParams
    /\ heap[NumParams].T_ref # 0
    /\ prev.op = IC /\ prev.inst # last.inst

\* C10: _flux_law and set_initial_conditions never fail;
\* get_fundamental_variables fails exactly when the base routine does, with
\* the base routine's failure, no mapping, and the instance unchanged.
C10_FailuresPropagate ==
    /\ last.op \in {FLUX, IC, "init"} => last.status = "ok"
    /\ last.op = GFV =>
          /\ last.status = "raise" <=> last.base \in BaseFailures
          /\ last.status = "raise" =>
                /\ last.error = last.base
                /\ last.mapping = EmptyMap
                /\ inst[last.inst] = last.selfBefore

C10_Witness ==
    /\ last.op = GFV /\ last.status = "raise" /\ last.error = "KeyError"

====
